---------------------------- MODULE Spec2Model ----------------------------
(***************************************************************************)
(* A model of audi_logger_plot.py: the SerialReader acquisition thread    *)
(* (hardware loop and demo generator), the lock-guarded latest_row slot,  *)
(* and main(): CSV log, consumer tick update(), Stop button, shutdown.    *)
(*                                                                         *)
(* Bytes and characters are one-character strings; a line is a sequence   *)
(* of them.  Python objects (the row dicts) live in a small heap so that  *)
(* "the same object" and "an equal copy" are different things.            *)
(***************************************************************************)
EXTENDS Integers, Sequences, FiniteSets, TLC

(***************************************************************************)
(* Bounds of the model.                                                    *)
(***************************************************************************)
MaxLines == 2      \* lines the device transmits in one run
MaxFrags == 1      \* reads that return on timeout in the middle of a line
MaxDemo  == 2      \* steps of the synthetic generator in one run
MaxTicks == 3      \* consumer ticks (calls of update) in one run
MaxPoints == 2     \* largest --max-points tried
MaxPorts == 2      \* largest number of enumerated serial ports
NumObj == 3        \* heap cells: the slot's dict, the reader's new dict, update's copy

None == "None"   \* Python's None, for the variables that hold names
NoRef == 0       \* Python's None, for the variables that hold a dict
NoRow == << >>   \* the content of a heap cell that holds no dict
NotCalled == 0 - 1   \* the length of a port list that was never asked for

(***************************************************************************)
(* The schema.                                                             *)
(***************************************************************************)
FIELDS ==
  << "log_index", "engine_rpm", "vehicle_speed", "gear", "torque",
     "oil_coolant_temperature", "EGT_bank1", "EGT_bank2",
     "intake_air_temperature", "oil_press", "fuel_press", "MAP_value",
     "exhaust_press_bank1", "exhaust_press_bank2", "U12V", "U5V",
     "faultword1" >>

N_FIELDS == Len(FIELDS)

FieldSet == { FIELDS[k] : k \in 1..N_FIELDS }

\* A dict built without the last channel.
ZipDictShort(values) ==
  [ f \in { FIELDS[k] : k \in 1..(N_FIELDS - 1) }
      |-> values[CHOOSE k \in 1..N_FIELDS : FIELDS[k] = f] ]

\* dict(zip(FIELDS, values)): zip stops at the shorter argument, and a key
\* takes the value at its position.
ZipDict(values) ==
  [ f \in { FIELDS[k] : k \in 1..(IF Len(values) < N_FIELDS THEN Len(values) ELSE N_FIELDS) }
      |-> values[CHOOSE k \in 1..N_FIELDS : FIELDS[k] = f] ]

(***************************************************************************)
(* Text helpers, as Python computes them.                                  *)
(***************************************************************************)
LF == "\n"
CR == "\r"
SEMI == ";"
BadByte == "0xFF"     \* a byte that is not valid UTF-8

Whitespace == { " ", "\t", "\n", "\r" }

DigitChars == << "0", "1", "2", "3", "4", "5", "6", "7", "8", "9" >>

IsDigit(c) == \E k \in 1..10 : DigitChars[k] = c

DigitVal(c) == (CHOOSE k \in 1..10 : DigitChars[k] = c) - 1

\* bytes.endswith(b"\r")
EndsWith(s, c) == Len(s) > 0 /\ s[Len(s)] = c

\* bytes.decode(errors="ignore"): undecodable bytes are dropped.
Decode(bytes) == SelectSeq(bytes, LAMBDA c : c # BadByte)

\* str.rstrip("\n"): every trailing newline goes.
RECURSIVE RStrip(_, _)
RStrip(s, c) ==
  IF Len(s) > 0 /\ s[Len(s)] = c THEN RStrip(SubSeq(s, 1, Len(s) - 1), c) ELSE s

\* str.split(";"): the pieces between the separators, in order; always at
\* least one piece, empty pieces kept.  A piece starts at 1 or after a
\* separator and runs to the next separator or the end.
Split(s, sep) ==
  LET seps == { k \in 1..Len(s) : s[k] = sep }
      starts == { 1 } \cup { k + 1 : k \in seps }
      nth(n) == CHOOSE p \in starts : Cardinality({ q \in starts : q < p }) = n - 1
      stop(p) == IF \E k \in seps : k >= p
                 THEN CHOOSE k \in seps : k >= p /\ \A j \in seps : j >= p => k <= j
                 ELSE Len(s) + 1
  IN  [ n \in 1..Cardinality(starts) |-> SubSeq(s, nth(n), stop(nth(n)) - 1) ]

\* [p for p in text.split(";") if p != ""]
Parts(text) == SelectSeq(Split(text, SEMI), LAMBDA p : p # << >>)

\* str.strip() as int() applies it: whitespace at both ends goes.
RECURSIVE LStripWs(_)
LStripWs(s) ==
  IF Len(s) > 0 /\ s[1] \in Whitespace THEN LStripWs(Tail(s)) ELSE s

RECURSIVE RStripWs(_)
RStripWs(s) ==
  IF Len(s) > 0 /\ s[Len(s)] \in Whitespace
  THEN RStripWs(SubSeq(s, 1, Len(s) - 1)) ELSE s

StripWs(s) == RStripWs(LStripWs(s))

\* The digits of an int() literal: digits, with single underscores allowed
\* between two digits.
DigitsOk(d) ==
  /\ Len(d) > 0
  /\ \A k \in 1..Len(d) :
       \/ IsDigit(d[k])
       \/ /\ d[k] = "_"
          /\ 1 < k /\ k < Len(d)
          /\ IsDigit(d[k - 1]) /\ IsDigit(d[k + 1])

RECURSIVE DigitsVal(_, _)
DigitsVal(d, acc) ==
  IF d = << >> THEN acc
  ELSE IF d[1] = "_" THEN DigitsVal(Tail(d), acc)
  ELSE DigitsVal(Tail(d), 10 * acc + DigitVal(d[1]))

HasSign(s) == Len(s) > 0 /\ s[1] \in { "+", "-" }

Unsigned(s) == IF HasSign(s) THEN Tail(s) ELSE s

\* int(p) succeeds (does not raise ValueError).
IntOk(p) == DigitsOk(Unsigned(StripWs(p)))

\* int(p), for a p that int() accepts.
IntVal(p) ==
  LET s == StripWs(p)
      v == DigitsVal(Unsigned(s), 0)
  IN  IF HasSign(s) /\ s[1] = "-" THEN 0 - v ELSE v


(***************************************************************************)
(* The frame check of SerialReader.run, lines 92-106, on one value of      *)
(* `line` as read_until returned it.                                       *)
(***************************************************************************)
\* line 95-96: one trailing carriage return goes.
StripCR(bytes) ==
  IF EndsWith(bytes, CR) THEN SubSeq(bytes, 1, Len(bytes) - 1) ELSE bytes

\* line 97
TextOf(bytes) == RStrip(Decode(StripCR(bytes)), LF)

\* line 101, negated: the count of parts the loop lets through.
CountOkLoose(n) == n >= N_FIELDS

CountOk(n) == n = N_FIELDS

\* line 105: list(map(int, parts)) raises ValueError on the first part that
\* int() rejects, so values exist only when int() accepts every part.
AllIntsLoose(parts) == \E k \in 1..Len(parts) : IntOk(parts[k])

AllInts(parts) == \A k \in 1..Len(parts) : IntOk(parts[k])

Values(parts) ==
  [ k \in 1..Len(parts) |-> IF IntOk(parts[k]) THEN IntVal(parts[k]) ELSE 0 ]

\* Which way one iteration goes: "timeout" (line 92-93), "blank" (98-99),
\* "count" (101-104), "value" (ValueError, 109-111) or "ok" (105-106).
Outcome(bytes) ==
  IF bytes = << >> THEN "timeout"
  ELSE IF TextOf(bytes) = << >> THEN "blank"
  ELSE IF ~CountOk(Len(Parts(TextOf(bytes)))) THEN "count"
  ELSE IF ~AllInts(Parts(TextOf(bytes))) THEN "value"
  ELSE "ok"

\* line 105-106, for a line whose outcome is "ok".
RowOf(bytes) == ZipDict(Values(Parts(TextOf(bytes))))

(***************************************************************************)
(* What the device may put on the wire.                                    *)
(***************************************************************************)
RECURSIVE DecNat(_)
DecNat(n) ==
  IF n < 10 THEN << DigitChars[n + 1] >>
  ELSE DecNat(n \div 10) \o << DigitChars[(n % 10) + 1] >>

\* An integer as the firmware prints it.
Dec(n) == IF n < 0 THEN << "-" >> \o DecNat(0 - n) ELSE DecNat(n)

RECURSIVE Join(_, _)
Join(tokens, sep) ==
  IF Len(tokens) = 0 THEN << >>
  ELSE IF Len(tokens) = 1 THEN tokens[1]
  ELSE tokens[1] \o << sep >> \o Join(Tail(tokens), sep)

Tokens(vals) == [ k \in 1..Len(vals) |-> Dec(vals[k]) ]

Sample1 == << 1, 800, 0, 1, 50, 70, 350, 340, 20, 200, 3000, 1000, 100, 95, 13800, 5020, 0 >>
Sample2 == << 2, 850, 1, 1, 55, 70, 360, 350, 20, 205, 3050, 1010, 101, 96, 13790, 5015, 0 >>
Sample3 == << 12, 900, 2, 1, 0 - 5, 71, 370, 360, 21, 210, 3100, 1020, 102, 97, 13780, 5010, 16 >>

WithToken(tokens, k, tok) == [ tokens EXCEPT ![k] = tok ]

\* Well-formed lines, in the terminator variants of the wire format.
GoodLines ==
  { Join(Tokens(Sample1), SEMI) \o << LF >>,
    Join(Tokens(Sample2), SEMI) \o << LF >>,
    Join(Tokens(Sample3), SEMI) \o << SEMI, LF >>,
    << CR >> \o Join(Tokens(Sample2), SEMI) \o << SEMI, LF >>,
    Join(Tokens(Sample1), SEMI) \o << CR, LF >>,
    Join(Tokens(Sample3), SEMI) \o << SEMI, CR, LF >>,
    Join(WithToken(Tokens(Sample1), 4, << " ", "7" >>), SEMI) \o << LF >>,
    Join(WithToken(Tokens(Sample2), 5, << "+", "5", "5" >>), SEMI) \o << LF >> }

\* Malformed lines.
BadLines ==
  { Join(SubSeq(Tokens(Sample2), 1, N_FIELDS - 1), SEMI) \o << LF >>,
    Join(Tokens(Sample1) \o << Dec(9) >>, SEMI) \o << LF >>,
    Join(SubSeq(Tokens(Sample1), 1, N_FIELDS - 1), SEMI) \o << SEMI, CR, LF >>,
    Join(WithToken(Tokens(Sample1), 3, << "x" >>), SEMI) \o << LF >>,
    Join(WithToken(Tokens(Sample2), 2, << "8", ".", "5" >>), SEMI) \o << LF >>,
    Join(WithToken(Tokens(Sample2), N_FIELDS, << "-" >>), SEMI) \o << LF >>,
    Join(WithToken(Tokens(Sample1), 1, << >>), SEMI) \o << LF >>,
    << LF >>,
    << SEMI, LF >>,
    << BadByte, LF >> }

WireLines == GoodLines \cup BadLines

\* The three lines of the end-to-end scenario: two valid ones and one with
\* 16 fields.
SampleLines ==
  { Join(Tokens(Sample1), SEMI) \o << LF >>,
    Join(SubSeq(Tokens(Sample2), 1, N_FIELDS - 1), SEMI) \o << LF >>,
    Join(Tokens(Sample2), SEMI) \o << LF >> }

\* What the device sends in a run, by the run's feed.
Feed(name) == IF name = "frames" THEN WireLines ELSE SampleLines

\* Where a read timeout may cut a line of length n: inside the first token,
\* in the middle, inside the last token, before and after the last separator
\* and before the newline.
Cuts(n) == { 1, n \div 2, n - 3, n - 2, n - 1 }

\* Lines a read timeout may cut in two.
FragLines ==
  { Join(Tokens(Sample3), SEMI) \o << LF >>,
    Join(Tokens(Sample3), SEMI) \o << SEMI, LF >> }


\* Every value read_until can return: nothing, a whole line, or the two
\* pieces of a line that a timeout cut.
ReadValues ==
  { << >> } \cup WireLines \cup SampleLines \cup FragLines
    \cup UNION { { SubSeq(l, 1, k) : k \in Cuts(Len(l)) } : l \in FragLines }
    \cup UNION { { SubSeq(l, k + 1, Len(l)) : k \in Cuts(Len(l)) } : l \in FragLines }

\* The frame check of lines 92-106 on each of them, computed once: the text,
\* the number of parts, whether int() takes every part, the way the
\* iteration goes and the dict it builds.
Frames ==
  [ b \in ReadValues |->
      [ text |-> TextOf(b),
        count |-> Len(Parts(TextOf(b))),
        ints |-> \A k \in 1..Len(Parts(TextOf(b))) : IntOk(Parts(TextOf(b))[k]),
        outcome |-> Outcome(b),
        row |-> IF Outcome(b) = "ok" THEN RowOf(b) ELSE NoRow ] ]

(***************************************************************************)
(* State.                                                                  *)
(***************************************************************************)
VARIABLES
  feed,        \* which lines the device sends: "samples" or "frames"
  demo,        \* args.demo
  no_log,      \* args.no_log
  maxlen,      \* args.max_points, the maxlen of every deque
  mainPc,      \* where the main thread is
  stopRet,     \* who called reader.stop(): "on_stop" or "finally"
  csv_file,    \* "None", "open" or "closed"
  csvRows,     \* the data rows written by writer.writerow, in order
  port,        \* self.port: "None" or a device name
  ser,         \* self.ser: "None", "open" or "closed"
  serCloses,   \* how many times the open port was closed
  ports,       \* len(list_ports.comports()) as __init__ saw it, or NotCalled
  stop_flag,   \* self.stop_flag
  lock,        \* self.lock: "free", or the thread that holds it
  latest_row,  \* self.latest_row: NoRef or a heap cell
  heap,        \* the row dicts
  readerPc,    \* where the acquisition thread is
  line,        \* run's local `line`
  row,         \* run's / _run_demo's local `row`: NoRef or a heap cell
  readerExit,  \* why the thread left its loop
  wire,        \* bytes of the line in transit that no read has returned yet
  nSent,       \* lines the device has started to transmit
  nFrags,      \* reads that returned a fragment
  sentGood,    \* history: the dict of the last well-formed line transmitted
  sentWrong,   \* history: lines transmitted whose number of parts is not 17
  gen,         \* the locals of _run_demo
  urow,        \* update's local `row`: NoRef or a heap cell
  ticks,       \* calls of update so far
  hist,        \* the 17 deques, by field
  writes,      \* history: the records stored in latest_row, in order
  taken,       \* history: the records update appended to the deques, in order
  getSeen,     \* history: Len(writes) when the current get_latest was called
  warns,       \* history: "[warn] Skipping line" messages printed
  stopWrites   \* history: Len(writes) when the stop flag was first set

vars ==
  << feed, demo, no_log, maxlen, mainPc, stopRet, csv_file, csvRows, port,
     ser, serCloses, stop_flag, lock, latest_row, heap, readerPc, line, row,
     readerExit, wire, nSent, nFrags, sentGood, sentWrong, gen, urow, ticks,
     hist, writes, getSeen, warns, taken, ports, stopWrites >>

argVars    == << feed, demo, no_log, maxlen >>
mainVars   == << mainPc, stopRet >>
csvVars    == << csv_file, csvRows >>
serVars    == << port, ser, serCloses, ports >>
slotVars   == << latest_row, heap >>
readerVars ==
  << readerPc, line, row, readerExit, wire, nSent, nFrags, sentGood, sentWrong, gen >>
tickVars   == << urow, ticks, hist, getSeen, taken >>

ObjIds == 1..NumObj

\* The cells some variable refers to, and a cell none refers to.
Live(refs) == refs \ { NoRef }

Fresh(refs) == CHOOSE i \in ObjIds \ refs : \A j \in ObjIds \ refs : i <= j

\* The heap with every cell outside `refs` released.
Collect(h, refs) == [ i \in ObjIds |-> IF i \in refs THEN h[i] ELSE NoRow ]

\* _run_demo, lines 122-140 (only the locals that later steps read).
GenInit ==
  [ i |-> 0, rpm |-> 800, speed10 |-> 0, gear |-> 1, torque |-> 50, oct100 |-> 7000 ]

\* The state after argument parsing, all but the arguments.
Start ==
  /\ mainPc = "open_csv"
  /\ stopRet = None
  /\ csv_file = None
  /\ csvRows = << >>
  /\ port = None
  /\ ser = None
  /\ serCloses = 0
  /\ ports = NotCalled
  /\ stop_flag = FALSE
  /\ lock = "free"
  /\ latest_row = NoRef
  /\ heap = [ i \in ObjIds |-> NoRow ]
  /\ readerPc = "idle"
  /\ line = << >>
  /\ row = NoRef
  /\ readerExit = None
  /\ wire = << >>
  /\ nSent = 0
  /\ nFrags = 0
  /\ sentGood = NoRow
  /\ sentWrong = 0
  /\ gen = GenInit
  /\ urow = NoRef
  /\ ticks = 0
  /\ hist = [ f \in FieldSet |-> << >> ]
  /\ writes = << >>
  /\ getSeen = 0
  /\ warns = 0
  /\ taken = << >>
  /\ stopWrites = 0

\* Any arguments, and a device that sends the lines of the scenario.
Init ==
  /\ feed = "samples"
  /\ demo \in BOOLEAN
  /\ no_log \in BOOLEAN
  /\ maxlen \in (0 - 1)..MaxPoints
  /\ Start

\* Hardware mode without logging, and a device that sends any line of
\* WireLines, whole or cut by a read timeout.
FrameInit ==
  /\ feed = "frames"
  /\ demo = FALSE
  /\ no_log = TRUE
  /\ maxlen = 1
  /\ Start


(***************************************************************************)
(* The acquisition thread: SerialReader.run, hardware mode.                *)
(***************************************************************************)
\* The thread is a daemon (line 48): it runs only while the process does,
\* that is until main has returned or raised.
Alive == mainPc \notin { "exited", "raised" }

\* A loop test that never sees the flag.
StopNeverSeen(flag) == FALSE

\* lines 88 and 141: self.stop_flag.is_set()
StopSeen(flag) == flag

\* line 88: while not self.stop_flag.is_set()
LoopTest ==
  /\ Alive
  /\ readerPc = "loop_test"
  /\ IF StopSeen(stop_flag)
     THEN /\ readerPc' = "terminated"
          /\ readerExit' = "stop"
     ELSE /\ readerPc' = "read"
          /\ UNCHANGED readerExit
  /\ UNCHANGED << line, row, wire, nSent, nFrags, sentGood, sentWrong, gen >>
  /\ UNCHANGED << argVars, stopWrites, mainVars, csvVars, serVars, stop_flag, lock, slotVars,
                  tickVars, writes, warns >>

\* line 91: self.ser.read_until(b"\n") with timeout=1 returns a whole line, or
\* on timeout the bytes received so far (none, or the start of a line, the
\* rest of which the next read returns), or raises SerialException; on a port
\* that stop() has closed it raises.  Lines 112-114: the exception ends the loop.
ReadOutcome(bytes, rest, sent, frags, tx) ==
  /\ line' = bytes
  /\ wire' = rest
  /\ nSent' = sent
  /\ nFrags' = frags
  /\ sentGood' = IF tx # << >> /\ Frames[tx].outcome = "ok" THEN Frames[tx].row ELSE sentGood
  /\ sentWrong' = IF tx # << >> /\ Frames[tx].count # N_FIELDS THEN sentWrong + 1 ELSE sentWrong
  /\ readerPc' = "parse"
  /\ UNCHANGED readerExit

ReadRaises(why) ==
  /\ readerPc' = "terminated"
  /\ readerExit' = why
  /\ UNCHANGED << line, wire, nSent, nFrags, sentGood, sentWrong >>

Read ==
  /\ Alive
  /\ readerPc = "read"
  /\ IF ser # "open"
     THEN ReadRaises("port_closed")
     ELSE \/ /\ wire = << >>
             /\ ReadOutcome(<< >>, << >>, nSent, nFrags, << >>)
          \/ /\ wire = << >>
             /\ nSent < MaxLines
             /\ \E l \in Feed(feed) : ReadOutcome(l, << >>, nSent + 1, nFrags, l)
          \/ /\ wire = << >>
             /\ nSent < MaxLines
             /\ nFrags < MaxFrags
             /\ feed = "frames"
             /\ \E l \in FragLines : \E k \in Cuts(Len(l)) :
                  ReadOutcome(SubSeq(l, 1, k), SubSeq(l, k + 1, Len(l)),
                              nSent + 1, nFrags + 1, l)
          \/ /\ wire # << >>
             /\ ReadOutcome(wire, << >>, nSent, nFrags, << >>)
          \/ ReadRaises("transport")
  /\ UNCHANGED << row, gen >>
  /\ UNCHANGED << argVars, stopWrites, mainVars, csvVars, serVars, stop_flag, lock, slotVars,
                  tickVars, writes, warns >>

\* A rejected line ending the loop.
AfterRejectBreak == "terminated"

\* lines 93, 99, 104 and 111: continue
AfterReject == "loop_test"

\* lines 92-106 and 109-111: the frame check; a good line leaves its dict in
\* `row`, any other goes back to the loop test (a wrong count after a warning).
Parse ==
  /\ Alive
  /\ readerPc = "parse"
  /\ IF Frames[line].outcome = "ok"
     THEN LET new == Fresh(Live({ latest_row, urow }))
          IN  /\ row' = new
              /\ heap' = [ Collect(heap, Live({ latest_row, urow })) EXCEPT ![new] = Frames[line].row ]
              /\ readerPc' = "acquire"
              /\ UNCHANGED warns
     ELSE /\ readerPc' = AfterReject
          /\ warns' = IF Frames[line].outcome = "count" THEN warns + 1 ELSE warns
          /\ UNCHANGED << row, heap >>
  /\ UNCHANGED << line, readerExit, wire, nSent, nFrags, sentGood, sentWrong, gen >>
  /\ UNCHANGED << argVars, stopWrites, mainVars, csvVars, serVars, stop_flag, lock, latest_row,
                  tickVars, writes >>

\* line 107 and 170: with self.lock
WAcquire ==
  /\ Alive
  /\ readerPc = "acquire"
  /\ lock = "free"
  /\ lock' = "reader"
  /\ readerPc' = "store"
  /\ UNCHANGED << line, row, readerExit, wire, nSent, nFrags, sentGood, sentWrong, gen >>
  /\ UNCHANGED << argVars, stopWrites, mainVars, csvVars, serVars, stop_flag, slotVars,
                  tickVars, writes, warns >>

\* A slot that keeps its first record.
PutFirst(slot, new) == IF slot = NoRef THEN new ELSE slot

\* line 108 and 171: self.latest_row = row
Put(slot, new) == new

WStore ==
  /\ Alive
  /\ readerPc = "store"
  /\ latest_row' = Put(latest_row, row)
  /\ heap' = Collect(heap, Live({ latest_row', row, urow }))
  /\ writes' = Append(writes, heap[row])
  /\ readerPc' = "release"
  /\ UNCHANGED << line, row, readerExit, wire, nSent, nFrags, sentGood, sentWrong, gen >>
  /\ UNCHANGED << argVars, stopWrites, mainVars, csvVars, serVars, stop_flag, lock,
                  tickVars, warns >>

\* leaving the with block
WRelease ==
  /\ Alive
  /\ readerPc = "release"
  /\ lock' = "free"
  /\ readerPc' = IF demo THEN "sleep" ELSE "loop_test"
  /\ UNCHANGED << line, row, readerExit, wire, nSent, nFrags, sentGood, sentWrong, gen >>
  /\ UNCHANGED << argVars, stopWrites, mainVars, csvVars, serVars, stop_flag, slotVars,
                  tickVars, writes, warns >>

(***************************************************************************)
(* The acquisition thread: SerialReader._run_demo.                         *)
(***************************************************************************)
Max(a, b) == IF a > b THEN a ELSE b
Min(a, b) == IF a < b THEN a ELSE b

\* int() of a quotient: toward zero.
TruncDiv(a, b) == IF a >= 0 THEN a \div b ELSE 0 - ((0 - a) \div b)

\* time.time() % 1 at lines 160 and 161, in hundredths of a second.
TimeFracs == { 0, 75 }

\* A generator that counts in twos.
GenStepSkip(g, elapsed) == [ g EXCEPT !.i = g.i + 2 ]

\* lines 142-151: speed in tenths, the coolant temperature in hundredths;
\* `elapsed` is now - last_shift > 5.
GenStep(g, elapsed) ==
  LET rpm2 == Max(700, Min(6500, g.rpm + (IF g.speed10 < 800 THEN 50 ELSE 0 - 30)))
      speed2 == Max(0, Min(2200, g.speed10 + (IF rpm2 > 1200 THEN 5 ELSE 0 - 2)))
  IN  [ i |-> g.i + 1,
        rpm |-> rpm2,
        speed10 |-> speed2,
        gear |-> IF elapsed /\ speed2 > 200 THEN Min(8, g.gear + 1) ELSE g.gear,
        torque |-> Max(0, Min(450, g.torque + (IF rpm2 < 3000 THEN 5 ELSE 0 - 7))),
        oct100 |-> Min(11000, g.oct100 + 2) ]

\* lines 152-169, from the stepped locals and the two clock readings.
GenRow(g, f1, f2) ==
  LET egt1 == 300 + (g.rpm * 700) \div 6500
      ep1 == 80 + (g.rpm * 120) \div 6500
  IN  ZipDict(<< g.i, g.rpm, g.speed10 \div 10, g.gear, g.torque,
                 g.oct100 \div 100, egt1, egt1 - 10,
                 20 + (g.rpm * 30) \div 10000,
                 150 + (g.rpm * 400) \div 6500,
                 2500 + (g.rpm * 1500) \div 6500,
                 1000 + (g.rpm * 1500) \div 6500,
                 ep1, ep1 - 5,
                 13800 + (50 - f1),
                 5020 + TruncDiv(50 - f2, 10),
                 0 >>)

\* line 141: while not self.stop_flag.is_set().  The model lets the generator
\* start at most MaxDemo steps.
DemoTest ==
  /\ Alive
  /\ readerPc = "demo_test"
  /\ StopSeen(stop_flag) \/ gen.i < MaxDemo
  /\ IF StopSeen(stop_flag)
     THEN /\ readerPc' = "terminated"
          /\ readerExit' = "stop"
     ELSE /\ readerPc' = "demo_step"
          /\ UNCHANGED readerExit
  /\ UNCHANGED << line, row, wire, nSent, nFrags, sentGood, sentWrong, gen >>
  /\ UNCHANGED << argVars, stopWrites, mainVars, csvVars, serVars, stop_flag, lock, slotVars,
                  tickVars, writes, warns >>

\* lines 142-169
DemoStep ==
  /\ Alive
  /\ readerPc = "demo_step"
  /\ \E elapsed \in BOOLEAN : \E f1 \in TimeFracs : \E f2 \in TimeFracs :
       LET new == Fresh(Live({ latest_row, urow }))
       IN  /\ gen' = GenStep(gen, elapsed)
           /\ row' = new
           /\ heap' = [ Collect(heap, Live({ latest_row, urow })) EXCEPT ![new] = GenRow(gen', f1, f2) ]
  /\ readerPc' = "acquire"
  /\ UNCHANGED << line, readerExit, wire, nSent, nFrags, sentGood, sentWrong >>
  /\ UNCHANGED << argVars, stopWrites, mainVars, csvVars, serVars, stop_flag, lock, latest_row,
                  tickVars, writes, warns >>

\* line 172: time.sleep(0.05)
DemoSleep ==
  /\ Alive
  /\ readerPc = "sleep"
  /\ readerPc' = "demo_test"
  /\ UNCHANGED << line, row, readerExit, wire, nSent, nFrags, sentGood, sentWrong, gen >>
  /\ UNCHANGED << argVars, stopWrites, mainVars, csvVars, serVars, stop_flag, lock, slotVars,
                  tickVars, writes, warns >>

StoreSteps == WAcquire \/ WStore \/ WRelease

HardwareNext == LoopTest \/ Read \/ Parse \/ StoreSteps

DemoNext == DemoTest \/ DemoStep \/ DemoSleep \/ StoreSteps

ReaderNext == HardwareNext \/ DemoNext


(***************************************************************************)
(* main(): start-up.                                                       *)
(***************************************************************************)
\* lines 222-229: the CSV file is opened and its header written, unless --no-log.
OpenCsv ==
  /\ mainPc = "open_csv"
  /\ csv_file' = IF no_log THEN None ELSE "open"
  /\ mainPc' = "construct"
  /\ UNCHANGED << stopRet, csvRows >>
  /\ UNCHANGED << argVars, stopWrites, serVars, stop_flag, lock, slotVars, readerVars,
                  tickVars, writes, warns >>

\* A resolution that takes the first port when there are several.
ResolvePortGuess(given, n) ==
  IF given # None THEN given
  ELSE IF n >= 1 THEN "COM1"
  ELSE "error"

\* lines 60-69: the port to open, or "error" when none can be chosen;
\* `given` is args.port, `n` is len(list_ports.comports()).
ResolvePort(given, n) ==
  IF given # None THEN given
  ELSE IF n = 1 THEN "COM1"
  ELSE "error"

\* line 231, SerialReader.__init__ (lines 47-78): in hardware mode it raises
\* when pyserial is missing, when no port can be chosen, and when
\* serial.Serial fails; nothing in main catches that.
Construct ==
  /\ mainPc = "construct"
  /\ IF demo
     THEN /\ mainPc' = "start"
          /\ UNCHANGED << port, ser, ports >>
     ELSE \E installed \in BOOLEAN : \E given \in { None, "COM2" } :
          \E n \in 0..MaxPorts : \E opens \in BOOLEAN :
            /\ ports' = IF installed /\ given = None THEN n ELSE NotCalled
            /\ IF installed /\ ResolvePort(given, n) # "error" /\ opens
               THEN /\ port' = ResolvePort(given, n)
                    /\ ser' = "open"
                    /\ mainPc' = "start"
               ELSE /\ port' = IF installed /\ ResolvePort(given, n) # "error"
                               THEN ResolvePort(given, n) ELSE given
                    /\ mainPc' = "raised"
                    /\ UNCHANGED ser
  /\ UNCHANGED << stopRet, serCloses >>
  /\ UNCHANGED << argVars, stopWrites, csvVars, stop_flag, lock, slotVars, readerVars,
                  tickVars, writes, warns >>

\* line 232: reader.start(); lines 81-87 and 121-140 run up to the loop.
StartThread ==
  /\ mainPc = "start"
  /\ readerPc' = IF demo THEN "demo_test" ELSE "loop_test"
  /\ mainPc' = "deques"
  /\ UNCHANGED stopRet
  /\ UNCHANGED << line, row, readerExit, wire, nSent, nFrags, sentGood, sentWrong, gen >>
  /\ UNCHANGED << argVars, stopWrites, csvVars, serVars, stop_flag, lock, slotVars,
                  tickVars, writes, warns >>

\* lines 235-252: deque(maxlen=args.max_points) raises ValueError for a
\* negative maxlen, which nothing in main catches; else on to plt.show().
MakeDeques ==
  /\ mainPc = "deques"
  /\ mainPc' = IF maxlen < 0 THEN "raised" ELSE "show"
  /\ UNCHANGED stopRet
  /\ UNCHANGED << argVars, stopWrites, csvVars, serVars, stop_flag, lock, slotVars,
                  readerVars, tickVars, writes, warns >>

(***************************************************************************)
(* main(): the consumer tick, update(), run by the event loop of plt.show. *)
(***************************************************************************)
\* line 313: reader.get_latest() is called.
UpdateCall ==
  /\ mainPc = "show"
  /\ ticks < MaxTicks
  /\ ticks' = ticks + 1
  /\ getSeen' = Len(writes)
  /\ mainPc' = "get_acquire"
  /\ UNCHANGED << stopRet, urow, hist, taken >>
  /\ UNCHANGED << argVars, stopWrites, csvVars, serVars, stop_flag, lock, slotVars,
                  readerVars, writes, warns >>

\* line 175: with self.lock
GetAcquire ==
  /\ mainPc = "get_acquire"
  /\ lock = "free"
  /\ lock' = "main"
  /\ mainPc' = "get_copy"
  /\ UNCHANGED stopRet
  /\ UNCHANGED << argVars, stopWrites, csvVars, serVars, stop_flag, slotVars, readerVars,
                  tickVars, writes, warns >>

AllZero == [ f \in FieldSet |-> 0 ]

\* get_latest handing out a record of zeros when the slot is empty.
GetLatestDefault(slot, h, fresh) ==
  IF slot = NoRef THEN [ ref |-> fresh, val |-> AllZero ]
  ELSE [ ref |-> fresh, val |-> h[slot] ]

\* get_latest handing out the slot's own dict.
GetLatestAlias(slot, h, fresh) ==
  IF slot = NoRef THEN [ ref |-> NoRef, val |-> NoRow ]
  ELSE [ ref |-> slot, val |-> h[slot] ]

\* line 176: None, or dict(self.latest_row), a new dict with the same items.
GetLatest(slot, h, fresh) ==
  IF slot = NoRef THEN [ ref |-> NoRef, val |-> NoRow ]
  ELSE [ ref |-> fresh, val |-> h[slot] ]

GetCopy ==
  /\ mainPc = "get_copy"
  /\ LET r == GetLatest(latest_row, heap, Fresh(Live({ latest_row, row })))
     IN  /\ urow' = r.ref
         /\ heap' = IF r.ref = NoRef THEN heap ELSE [ heap EXCEPT ![r.ref] = r.val ]
  /\ mainPc' = "get_release"
  /\ UNCHANGED << stopRet, latest_row, ticks, hist, getSeen, taken >>
  /\ UNCHANGED << argVars, stopWrites, csvVars, serVars, stop_flag, lock, readerVars,
                  writes, warns >>

\* leaving the with block of get_latest; update has its `row`.
GetRelease ==
  /\ mainPc = "get_release"
  /\ lock' = "free"
  /\ mainPc' = "update_body"
  /\ UNCHANGED stopRet
  /\ UNCHANGED << argVars, stopWrites, csvVars, serVars, stop_flag, slotVars, readerVars,
                  tickVars, writes, warns >>

\* A deque that leaves out a value equal to its newest element.
DequeAppendDedup(d, v, n) ==
  IF n = 0 THEN << >>
  ELSE IF Len(d) > 0 /\ d[Len(d)] = v THEN d
  ELSE IF Len(d) >= n THEN Append(Tail(d), v)
  ELSE Append(d, v)

\* A deque that never evicts.
DequeAppendUnbounded(d, v, n) == Append(d, v)

\* deque(maxlen=n).append(v)
DequeAppend(d, v, n) ==
  IF n = 0 THEN << >>
  ELSE IF Len(d) >= n THEN Append(Tail(d), v)
  ELSE Append(d, v)

\* lines 314-340: nothing for None; else one CSV row (if logging) and one
\* append to each deque.  The rest of update only draws.
UpdateBody ==
  /\ mainPc = "update_body"
  /\ IF urow = NoRef
     THEN UNCHANGED << csvRows, hist, taken >>
     ELSE /\ csvRows' = IF no_log THEN csvRows ELSE Append(csvRows, heap[urow])
          /\ hist' = [ f \in FieldSet |-> DequeAppend(hist[f], heap[urow][f], maxlen) ]
          /\ taken' = Append(taken, heap[urow])
  /\ urow' = NoRef
  /\ heap' = Collect(heap, Live({ latest_row, row }))
  /\ mainPc' = "show"
  /\ UNCHANGED << stopRet, csv_file, latest_row, ticks, getSeen >>
  /\ UNCHANGED << argVars, stopWrites, serVars, stop_flag, lock, readerVars, writes, warns >>

(***************************************************************************)
(* main(): the ways out.                                                   *)
(***************************************************************************)
\* lines 303-306: the Stop button calls reader.stop()
OnStop ==
  /\ mainPc = "show"
  /\ stopRet' = "on_stop"
  /\ mainPc' = "stop_set"
  /\ UNCHANGED << argVars, stopWrites, csvVars, serVars, stop_flag, lock, slotVars,
                  readerVars, tickVars, writes, warns >>

\* lines 307-308: plt.close("all"), which makes plt.show() return
CloseFigures ==
  /\ mainPc = "close_figs"
  /\ mainPc' = "finally"
  /\ UNCHANGED stopRet
  /\ UNCHANGED << argVars, stopWrites, csvVars, serVars, stop_flag, lock, slotVars,
                  readerVars, tickVars, writes, warns >>

\* lines 404-406: the window is closed, or Ctrl+C raises KeyboardInterrupt
ShowReturns ==
  /\ mainPc = "show"
  /\ mainPc' = "finally"
  /\ UNCHANGED stopRet
  /\ UNCHANGED << argVars, stopWrites, csvVars, serVars, stop_flag, lock, slotVars,
                  readerVars, tickVars, writes, warns >>

\* lines 407-408: finally: reader.stop()
Finally ==
  /\ mainPc = "finally"
  /\ stopRet' = "finally"
  /\ mainPc' = "stop_set"
  /\ UNCHANGED << argVars, stopWrites, csvVars, serVars, stop_flag, lock, slotVars,
                  readerVars, tickVars, writes, warns >>

\* line 179: self.stop_flag.set()
StopSet ==
  /\ mainPc = "stop_set"
  /\ stop_flag' = TRUE
  /\ stopWrites' = IF stop_flag THEN stopWrites ELSE Len(writes)
  /\ mainPc' = "stop_close"
  /\ UNCHANGED stopRet
  /\ UNCHANGED << argVars, csvVars, serVars, lock, slotVars, readerVars,
                  tickVars, writes, warns >>

\* lines 180-184: the port, if there is one, is closed; closing a closed
\* port does nothing.
StopClose ==
  /\ mainPc = "stop_close"
  /\ IF ser = "open"
     THEN /\ ser' = "closed"
          /\ serCloses' = serCloses + 1
     ELSE UNCHANGED << ser, serCloses >>
  /\ mainPc' = IF stopRet = "on_stop" THEN "close_figs" ELSE "close_csv"
  /\ stopRet' = None
  /\ UNCHANGED << port, ports >>
  /\ UNCHANGED << argVars, stopWrites, csvVars, stop_flag, lock, slotVars, readerVars,
                  tickVars, writes, warns >>

\* lines 409-415: the CSV file, if open, is flushed and closed
CloseCsv ==
  /\ mainPc = "close_csv"
  /\ csv_file' = IF csv_file = "open" THEN "closed" ELSE csv_file
  /\ mainPc' = "exited"
  /\ UNCHANGED << stopRet, csvRows >>
  /\ UNCHANGED << argVars, stopWrites, serVars, stop_flag, lock, slotVars, readerVars,
                  tickVars, writes, warns >>

GetSteps == GetAcquire \/ GetCopy \/ GetRelease

StopSteps == StopSet \/ StopClose

MainNext ==
  \/ OpenCsv \/ Construct \/ StartThread \/ MakeDeques
  \/ UpdateCall \/ GetSteps \/ UpdateBody
  \/ OnStop \/ CloseFigures \/ ShowReturns \/ Finally
  \/ StopSteps \/ CloseCsv

Next == MainNext \/ ReaderNext

Spec == Init /\ [][Next]_vars

\* The acquisition thread in hardware mode, with a main thread that starts
\* it, shows the window and leaves: no tick of update, no Stop button.
FrameNext ==
  \/ OpenCsv \/ Construct \/ StartThread \/ MakeDeques
  \/ ShowReturns \/ Finally \/ StopSteps \/ CloseCsv
  \/ HardwareNext

FrameSpec == FrameInit /\ [][FrameNext]_vars

\* Either mode without logging, for what must eventually happen.  The
\* threads are scheduled: the acquisition thread keeps running, a started
\* stop() and a started get_latest() run to their end.  Nothing makes the
\* operator close the window, and nothing bounds how long main takes to leave.
ShutdownInit ==
  /\ feed = "samples"
  /\ demo \in BOOLEAN
  /\ no_log = TRUE
  /\ maxlen = 1
  /\ Start

ShutdownSpec ==
  /\ ShutdownInit
  /\ [][Next]_vars
  /\ WF_vars(ReaderNext)
  /\ WF_vars(StopSteps)
  /\ WF_vars(GetSteps)

(***************************************************************************)
(* Properties.                                                             *)
(***************************************************************************)
Last(q) == q[Len(q)]

IsPrefix(p, q) == Len(p) <= Len(q) /\ \A k \in 1..Len(p) : p[k] = q[k]

\* The step of the acquisition thread that runs the frame check.
ParseStep == readerPc = "parse" /\ readerPc' # "parse"

\* The step of get_latest that reads the slot.
CopyStep == mainPc = "get_copy" /\ mainPc' = "get_release"

\* The acquisition thread has stopped: it left its loop, or the process ended.
Stopped == readerPc = "terminated" \/ ~Alive

\* C1: a get_latest that still holds the lock has the record of the latest
\* completed write (None if there was none); what it returns is the record
\* of a write no older than the last one completed when it was called, so
\* with no write in between it is that last one, never an earlier one.
C1_LatestWins ==
  /\ mainPc = "get_release" =>
       IF writes = << >> THEN urow = NoRef
       ELSE urow # NoRef /\ heap[urow] = Last(writes)
  /\ (mainPc = "update_body" /\ getSeen > 0) =>
       /\ urow # NoRef
       /\ \E k \in getSeen..Len(writes) : heap[urow] = writes[k]

\* Two different records were written before get_latest was called, and it
\* returned the second.
C1_Witness ==
  /\ mainPc = "update_body"
  /\ getSeen = 2
  /\ Len(writes) = 2
  /\ writes[1] # writes[2]
  /\ urow # NoRef
  /\ heap[urow] = writes[2]

\* C2: with logging on, the log holds the accepted records, each once and
\* in order: at any time a prefix of them, and all of them when main is done.
C2_LoggedExactlyOnce ==
  ~no_log =>
    /\ IsPrefix(csvRows, writes)
    /\ mainPc = "exited" => csvRows = writes

\* C3: when the process has ended, on whatever path, the CSV file is not
\* left open and neither is the port.
C3_ClosedOnEveryExit == ~Alive => (csv_file # "open" /\ ser # "open")

\* C4: when a read raised a transport error the loop has ended and the port
\* is no longer open.
C4_TransportErrorReleases ==
  readerExit = "transport" => (readerPc = "terminated" /\ ser # "open")

\* C5: once stop() has set the flag, the acquisition thread (either mode)
\* stops, whatever it was doing; a loop test made with the flag set starts no
\* new cycle; and the port does not stay open.
C5_Shutdown ==
  /\ stop_flag ~> Stopped
  /\ stop_flag ~> (ser # "open")
  /\ [][(stop_flag /\ readerPc \in { "loop_test", "demo_test" })
          => readerPc' \in { readerPc, "terminated" }]_vars

\* The flag made the loop end after a record was stored, and the port is closed.
C5_Witness ==
  /\ readerPc = "terminated"
  /\ readerExit = "stop"
  /\ writes # << >>
  /\ ser # "open"

\* C6 as claimed: every line read whose number of parts is not 17 is
\* rejected with the warning, builds no record, leaves the slot alone, and
\* the loop goes on.
C6_WrongCountWarned ==
  [][(ParseStep /\ line # << >> /\ Frames[line].count # N_FIELDS)
       => /\ warns' = warns + 1
          /\ readerPc' = "loop_test"
          /\ UNCHANGED << latest_row, heap, row, writes >>]_vars

\* C6 as amended: that holds for the lines that are not blank (some text is
\* left once the terminator is stripped); a blank line is skipped the same
\* way but without the warning.
C6_NonBlankWrongCountWarned ==
  [][(ParseStep /\ line # << >> /\ Frames[line].count # N_FIELDS)
       => /\ warns' = IF Frames[line].text # << >> THEN warns + 1 ELSE warns
          /\ readerPc' = "loop_test"
          /\ UNCHANGED << latest_row, heap, row, writes >>]_vars

\* A non-blank line with a wrong count was rejected with the warning after a
\* record was stored; the record is still in the slot and the loop reads on.
C6_Witness ==
  /\ readerPc = "read"
  /\ Frames[line].text # << >>
  /\ Frames[line].count # N_FIELDS
  /\ warns = 1
  /\ latest_row # NoRef
  /\ heap[latest_row] = Last(writes)

\* C7: a line of 17 parts of which int() rejects at least one is skipped
\* whole: no record is built or stored, and the loop goes on.
C7_NonIntegerSkipped ==
  [][(ParseStep /\ Frames[line].count = N_FIELDS /\ ~Frames[line].ints)
       => /\ readerPc' = "loop_test"
          /\ UNCHANGED << latest_row, heap, row, writes, warns >>]_vars

\* Such a line was skipped after a record was stored; the record is still in
\* the slot and the loop reads on.
C7_Witness ==
  /\ readerPc = "read"
  /\ Frames[line].count = N_FIELDS
  /\ ~Frames[line].ints
  /\ latest_row # NoRef
  /\ heap[latest_row] = Last(writes)

\* C8: the hardware loop ends only at a loop test that finds the stop flag
\* set, or at a read that raises; the frame check never ends it, whatever
\* the line, and neither does a read that times out.
C8_OnlyStopOrTransportEnds ==
  [][(readerPc # "terminated" /\ readerPc' = "terminated")
       => \/ readerPc = "loop_test" /\ stop_flag
          \/ readerPc = "read" /\ readerExit' \in { "transport", "port_closed" }]_vars

\* Two malformed lines (one of them with a wrong count) and then a timeout
\* have been through the loop, nothing asked it to stop, and it reads on.
C8_Witness ==
  /\ readerPc = "read"
  /\ ~stop_flag
  /\ nSent >= 2
  /\ wire = << >>
  /\ line = << >>
  /\ writes = << >>
  /\ warns = 1

\* C9: as long as no record has been accepted, get_latest returns None, no
\* deque has an element and the log has no row; and a tick that got None
\* appends nothing and logs nothing.
C9_EmptyBeforeFirstRecord ==
  /\ [](writes = << >> =>
          /\ urow = NoRef
          /\ csvRows = << >>
          /\ \A f \in FieldSet : hist[f] = << >>)
  /\ [][(mainPc = "update_body" /\ urow = NoRef) => UNCHANGED << csvRows, hist >>]_vars

\* With logging on, a tick has run to its end before any record was accepted.
C9_Witness ==
  /\ ~no_log
  /\ readerPc \notin { "idle", "terminated" }
  /\ ticks >= 1
  /\ mainPc = "show"
  /\ writes = << >>

\* C10: get_latest leaves the slot and its dict as they were, and returns a
\* new dict equal to the slot's: no variable of the acquisition thread refers
\* to it, and no change of one of its items changes the slot's dict.
C10_NonDestructiveCopy ==
  /\ [](urow # NoRef =>
          /\ urow \notin { latest_row, row }
          /\ \A f \in FieldSet :
               [ heap EXCEPT ![urow][f] = @ + 1 ][latest_row] = heap[latest_row])
  /\ [][CopyStep =>
          /\ latest_row' = latest_row
          /\ latest_row # NoRef =>
               /\ heap'[latest_row] = heap[latest_row]
               /\ urow' # NoRef
               /\ heap'[urow'] = heap[latest_row]]_vars

\* Two calls of get_latest with no write between them: the second has
\* returned the record the first one logged, and the slot still holds it.
C10_Witness ==
  /\ mainPc = "update_body"
  /\ ticks = 2
  /\ Len(writes) = 1
  /\ ~no_log
  /\ urow # NoRef
  /\ latest_row # NoRef
  /\ csvRows = << heap[urow] >>
  /\ heap[latest_row] = heap[urow]
  /\ urow # latest_row


\* The locals of _run_demo after n steps of the loop, for any clock.
RECURSIVE GensAfter(_)
GensAfter(n) ==
  IF n = 0 THEN { GenInit }
  ELSE { GenStep(g, elapsed) : g \in GensAfter(n - 1), elapsed \in BOOLEAN }

\* The dicts that one synthetic step can build.
DemoRows ==
  UNION { { GenRow(g, f1, f2) : g \in GensAfter(n), f1 \in TimeFracs, f2 \in TimeFracs }
            : n \in 1..MaxDemo }

\* The dicts that one accepted line of the feed decodes to.
LineRows(name) == { Frames[l].row : l \in { w \in Feed(name) : Frames[w].outcome = "ok" } }

\* C11: the dict get_latest returned, and the one in the slot, always has
\* the 17 keys of the schema with integer values, and is the dict of one
\* accepted line (hardware) or of one synthetic step (demo), whole: never
\* a dict with a key missing or with items of two different writes.
C11_WholeRecord ==
  \A r \in { urow, latest_row } \ { NoRef } :
    /\ DOMAIN heap[r] = FieldSet
    /\ \A f \in FieldSet : heap[r][f] \in Int
    /\ heap[r] \in (IF demo THEN DemoRows ELSE LineRows(feed))
    /\ \E k \in 1..Len(writes) : heap[r] = writes[k]

\* update holds the copy of the first record while the acquisition thread
\* has already stored a second, different one.
C11_Witness ==
  /\ mainPc = "update_body"
  /\ urow # NoRef
  /\ latest_row # NoRef
  /\ Len(writes) = 2
  /\ heap[urow] = writes[1]
  /\ heap[latest_row] = writes[2]
  /\ writes[1] # writes[2]


\* The last n elements of a sequence.
Suffix(q, n) == SubSeq(q, Len(q) - n + 1, Len(q))

\* The values of one field in a sequence of records.
Column(q, f) == [ k \in 1..Len(q) |-> q[k][f] ]

\* C12: every deque holds at most maxlen elements: the values update
\* appended, in arrival order, all of them up to maxlen, and from then on
\* the last maxlen of them (each append at capacity evicting the one oldest).
\* A negative maxlen makes no deque at all.
C12_RingBuffer ==
  maxlen >= 0 =>
    \A f \in FieldSet :
      /\ Len(hist[f]) <= maxlen
      /\ hist[f] = Suffix(Column(taken, f), IF Len(taken) < maxlen THEN Len(taken) ELSE maxlen)

\* Three records, the first unlike the second, were appended to deques of
\* capacity 2: the first is gone, the second and third are left in order.
C12_Witness ==
  /\ maxlen = 2
  /\ Len(taken) = 3
  /\ taken[1]["log_index"] # taken[2]["log_index"]
  /\ hist["log_index"] = << taken[2]["log_index"], taken[3]["log_index"] >>


\* The step of main that constructs the SerialReader, in hardware mode.
ConstructStep == mainPc = "construct" /\ mainPc' # "construct" /\ ~demo

\* C13: with no port given and the ports enumerated, one port is taken and
\* opened (the thread starts only with it open; a failed open raises), while
\* none or several raise with no port chosen; a given port is used without
\* the enumeration; a raise leaves no port open and no thread started, and
\* a thread is only ever started after a port was resolved and opened.
C13_PortResolution ==
  /\ [][ConstructStep =>
          /\ ports' = 1 =>
               /\ port' = "COM1"
               /\ mainPc' = "start" <=> ser' = "open"
          /\ ports' \in (0..MaxPorts) \ { 1 } =>
               /\ mainPc' = "raised"
               /\ port' = None
               /\ ser' = None
          /\ port' = "COM2" => ports' = NotCalled
          /\ mainPc' = "start" => ser' = "open" /\ port' \in { "COM1", "COM2" }
          /\ mainPc' = "raised" => ser' = None /\ readerPc' = "idle"]_vars
  /\ [](readerPc # "idle" => (ser # None /\ ports \in { 1, NotCalled }))

\* No port was given and the machine has several: the constructor raised,
\* chose none, opened none, and no thread was started.
C13_Witness ==
  /\ mainPc = "raised"
  /\ ports = MaxPorts
  /\ port = None
  /\ ser = None
  /\ readerPc = "idle"


\* C14: in demo mode the k-th record stored has log_index k, so each one is
\* 1 more than the one before, from 1, and the thread leaves its loop only
\* because of the stop flag, never because of an error.
C14_DemoLogIndex ==
  demo =>
    /\ \A k \in 1..Len(writes) : writes[k]["log_index"] = k
    /\ readerExit \in { None, "stop" }
    /\ readerPc = "terminated" => readerExit = "stop"

\* The generator has stored as many records as the run lets it, the last
\* with that number as log_index, and goes on.
C14_Witness ==
  /\ demo
  /\ readerPc = "sleep"
  /\ Len(writes) = MaxDemo
  /\ writes[MaxDemo]["log_index"] = MaxDemo
  /\ writes[1]["log_index"] = 1


\* A line that ends with CR LF, and the same line ending with LF alone.
EndsCRLF(bytes) ==
  Len(bytes) >= 2 /\ bytes[Len(bytes)] = LF /\ bytes[Len(bytes) - 1] = CR

DropCR(bytes) == SubSeq(bytes, 1, Len(bytes) - 2) \o << LF >>

HasCR(token) == \E k \in 1..Len(token) : token[k] = CR

\* C15: a line ending with CR LF whose LF-only twin is a good line (with or
\* without a semicolon after the last field) is accepted with the twin's
\* record, and no part of it holds the carriage return.
C15_CRLFAccepted ==
  [][(ParseStep /\ EndsCRLF(line) /\ Outcome(DropCR(line)) = "ok")
       => /\ readerPc' = "acquire"
          /\ heap'[row'] = RowOf(DropCR(line))
          /\ \A k \in 1..Frames[line].count : ~HasCR(Parts(Frames[line].text)[k])]_vars


\* The hardware loop has processed every line transmitted so far: it is
\* between two iterations (or has ended) and no byte is left in transit.
Processed ==
  /\ ~demo
  /\ readerPc \in { "loop_test", "read", "terminated" }
  /\ wire = << >>

\* C16: whenever the hardware loop has processed the lines transmitted so
\* far, the slot holds the record of the last well-formed one (nothing, if
\* there was none) and the warnings printed are as many as the lines whose
\* number of parts is not 17.
C16_EndToEnd ==
  Processed =>
    /\ IF sentGood = NoRow THEN latest_row = NoRef
       ELSE latest_row # NoRef /\ heap[latest_row] = sentGood
    /\ warns = sentWrong


\* C17: a port that was opened is closed by the program exactly once by the
\* time the process has ended, on whatever path, and never more than once;
\* and a stop() called when the flag is set and the port is not open (any
\* call after the first) changes neither.
C17_ClosedExactlyOnce ==
  /\ [](serCloses <= 1)
  /\ []((~Alive /\ ser # None) => serCloses = 1)
  /\ [][(mainPc \in { "stop_set", "stop_close" } /\ stop_flag /\ ser # "open")
          => UNCHANGED << stop_flag, port, ser, serCloses >>]_vars


\* The dicts that the complete lines of the device decode to.
WholeRows ==
  { Frames[l].row : l \in { w \in WireLines \cup FragLines : Frames[w].outcome = "ok" } }

\* C18: in hardware mode every record stored is the decoding of one complete
\* line as transmitted: none comes from the piece of a line that a read
\* returned on timeout, or from the rest of that line.
C18_WholeLinesOnly ==
  ~demo => \A k \in 1..Len(writes) : writes[k] \in WholeRows


\* C19: between ticks and after any number of them, the 17 deques have one
\* length n, and for every position k their k-th elements are, field by
\* field, one record that update appended: the k-th of the last n.
C19_Aligned ==
  LET n == Len(hist["log_index"])
  IN  /\ n <= Len(taken)
      /\ \A f \in FieldSet : Len(hist[f]) = n
      /\ \A k \in 1..n :
           [ f \in FieldSet |-> hist[f][k] ] = taken[Len(taken) - n + k]

\* After an eviction at capacity 2 the deques hold, position by position,
\* the fields of two different records.
C19_Witness ==
  /\ mainPc = "show"
  /\ maxlen = 2
  /\ Len(taken) = 3
  /\ taken[2] # taken[3]
  /\ [ f \in FieldSet |-> hist[f][1] ] = taken[2]
  /\ [ f \in FieldSet |-> hist[f][2] ] = taken[3]


\* C20: once the stop flag is set, the acquisition thread stores at most
\* one more record than it had stored by then; and once it has terminated,
\* the slot and its dict stay as they are.
C20_AtMostOneWriteAfterStop ==
  /\ [](stop_flag => Len(writes) <= stopWrites + 1)
  /\ [][readerPc = "terminated" =>
          /\ latest_row' = latest_row
          /\ writes' = writes
          /\ latest_row # NoRef => heap'[latest_row] = heap[latest_row]]_vars

\* The thread stored one record after the flag was set, the one of the
\* iteration it was in, and then found the flag and ended.
C20_Witness ==
  /\ stop_flag
  /\ readerPc = "terminated"
  /\ readerExit = "stop"
  /\ Len(writes) = stopWrites + 1
  /\ latest_row # NoRef
  /\ heap[latest_row] = Last(writes)

=============================================================================
